---- MODULE Spec2Model ----
(***************************************************************************)
(* Model of the TOTP core of yashUcr773/totp: the Base32 codec, the        *)
(* HOTP/TOTP code generation and the windowed verifier.                    *)
(*                                                                         *)
(* JavaScript's bitwise operators work on 32-bit words.  A word is         *)
(* modelled as a function from bit position (0 = least significant) to     *)
(* {0,1}, so that the truncation done by << and | is part of the model.    *)
(* Strings are sequences of one-character strings.                         *)
(***************************************************************************)
EXTENDS Integers, Sequences, FiniteSets, TLC

VARIABLES
    buf,        \* codec: the byte buffer handed to base32Encode
    text,       \* codec: the Base32 text produced by base32Encode
    bytes,      \* codec: result of the Node base32Decode(text)
    bytesB,     \* codec: result of the browser base32Decode(text)
    cpc,        \* codec: position of the round-trip script
    base,       \* codec: a Base32 text as first written, before it is edited
    edits,      \* codec: how many edits the text has had
    secret,     \* totp: the Base32 secret string in use
    oracle,     \* totp: HMAC-SHA1, a fixed function (key, message) -> digest
    clock,      \* totp: Date.now(), in milliseconds
    generated,  \* totp: the totp() calls made so far, with their results
    vcall,      \* verify: the last verifyTotp() call, with its result
    digest,     \* truncation: the 20-byte digest h
    trunc,      \* truncation: offset and binary computed from h
    counterIn,    \* packing: the counter, a Number
    packed,     \* packing: the 8-byte buffers filled from the counter
    textS,      \* testSpeed: the result of base32EncodeString
    bytesS,     \* testSpeed: the result of base32DecoderString
    vtask,      \* browser: the asynchronous verifyTotp() call and its locals
    ttask,      \* browser: the asynchronous totp() call and its locals
    currentTotp,    \* TotpApp: the code displayed, with the secret it was computed for
    timeRemaining,  \* TotpApp: seconds left in the step
    verifyResult,   \* TotpApp: null ({}) or the result displayed, with the secret it
                    \*          was computed for and the time it was set
    updates,        \* TotpApp: the updateTotp() calls waiting for totp()
    verifs,         \* TotpApp: the handleVerifyCode() calls waiting for verifyTotp()
    timers,         \* TotpApp: the times at which a pending timeout clears the result
    intervals,      \* TotpApp: the secrets whose update interval is active
    intervalDue,    \* TotpApp: the interval callback is due
    nChanges,       \* TotpApp: how often the secret was set
    nVerifies       \* TotpApp: how often Verify was clicked

vars == <<buf, text, bytes, bytesB, cpc, base, edits, secret, oracle, clock, generated, vcall,
          digest, trunc, counterIn, packed, textS, bytesS, vtask, ttask,
          currentTotp, timeRemaining, verifyResult, updates, verifs, timers,
          intervals, intervalDue, nChanges, nVerifies>>

codecVars == <<buf, text, bytes, bytesB, cpc, base, edits>>
totpVars  == <<secret, oracle, clock, generated, vcall>>
pureVars  == <<digest, trunc, counterIn, packed, textS, bytesS>>

asyncVars == <<vtask, ttask>>

\* no asynchronous verifyTotp() call
VerifyTaskIdle ==
    [pc |-> "idle", secretBase32 |-> << >>, token |-> << >>, window |-> 0,
     start |-> 0, now |-> 0, w |-> 0,
     key |-> << >>, msg |-> << >>, ok |-> FALSE, drift |-> 0]

\* no asynchronous totp() call
TotpTaskIdle ==
    [pc |-> "idle", start |-> 0, key |-> << >>, msg |-> << >>, code |-> << >>]

AsyncIdle == vtask = VerifyTaskIdle /\ ttask = TotpTaskIdle

appVars == <<currentTotp, timeRemaining, verifyResult, updates, verifs, timers,
             intervals, intervalDue, nChanges, nVerifies>>

\* the useState() initial values of TotpApp, nothing pending
AppIdle ==
    /\ currentTotp = [code |-> << >>, secret |-> << >>]
    /\ timeRemaining = 30
    /\ verifyResult = {}
    /\ updates = {}
    /\ verifs = {}
    /\ timers = {}
    /\ intervals = {}
    /\ intervalDue = FALSE
    /\ nChanges = 0
    /\ nVerifies = 0

\* the state of the scripts that are not running
PureIdle ==
    /\ digest = << >>
    /\ trunc = {}
    /\ counterIn = << >>
    /\ packed = {}
    /\ textS = << >>
    /\ bytesS = << >>

----------------------------------------------------------------------------
(* Bounds *)

MaxLen == 5            \* longest byte buffer encoded
MaxWindow == 2         \* largest verification window
ClockStart == 149500   \* Date.now() when verification starts, in milliseconds
GenClockStart == 59500 \* Date.now() when code generation starts
AppClockStart == 61000 \* Date.now() when TotpApp is mounted, in milliseconds
MaxAppSeconds == 3     \* how many seconds TotpApp is followed
MaxChanges == 2        \* how often the secret is set, the mount included
MaxVerifies == 2       \* how often Verify is clicked
MaxPending == 1        \* calls waiting when the interval or a click starts one more
TickMs == 500          \* how far one tick advances the clock
MaxTicks == 1          \* how many times the clock ticks
MaxEdits == 2          \* how many edits a Base32 text gets

----------------------------------------------------------------------------
(* 32-bit words *)

Bit == {0, 1}
BitPos == 0..31

Pow2Table == [k \in 0..30 |-> 2^k]
Pow2(k) == Pow2Table[k]

\* ToInt32 of an integer in -2^31 .. 2^31-1, as a two's complement word
ToWord(n) ==
    LET m == IF n >= 0 THEN n ELSE (n + Pow2(30)) + Pow2(30)
    IN  [i \in BitPos |-> IF i = 31 THEN (IF n >= 0 THEN 0 ELSE 1)
                                    ELSE (m \div Pow2(i)) % 2]

RECURSIVE SumBits(_, _)
SumBits(w, i) == IF i < 0 THEN 0 ELSE w[i] * Pow2(i) + SumBits(w, i - 1)

\* the signed value of a word (the result of a JS bitwise operator)
WordToInt(w) == IF w[31] = 0 THEN SumBits(w, 30)
                ELSE (SumBits(w, 30) - Pow2(30)) - Pow2(30)

\* x << k
Shl(w, k) == [i \in BitPos |-> IF i >= k THEN w[i - k] ELSE 0]

\* x >>> k
Ushr(w, k) == [i \in BitPos |-> IF i + k <= 31 THEN w[i + k] ELSE 0]

\* x | y
BitOr(a, b) == [i \in BitPos |-> IF a[i] = 1 \/ b[i] = 1 THEN 1 ELSE 0]

\* x & y
BitAnd(a, b) == [i \in BitPos |-> IF a[i] = 1 /\ b[i] = 1 THEN 1 ELSE 0]

----------------------------------------------------------------------------
(* Strings *)

BASE32 == << "A", "B", "C", "D", "E", "F", "G", "H", "I", "J", "K", "L", "M",
             "N", "O", "P", "Q", "R", "S", "T", "U", "V", "W", "X", "Y", "Z",
             "2", "3", "4", "5", "6", "7" >>

Alphabet == { BASE32[i] : i \in 1..32 }

\* BASE32[i], with JavaScript's 0-based index
Base32At(i) == BASE32[i + 1]

\* BASE32.indexOf(ch): 0-based index, -1 when absent
IndexOf(ch) == IF ch \in Alphabet
               THEN (CHOOSE i \in 1..32 : BASE32[i] = ch) - 1
               ELSE -1

LowerCase == << "a", "b", "c", "d", "e", "f", "g", "h", "i", "j", "k", "l", "m",
                "n", "o", "p", "q", "r", "s", "t", "u", "v", "w", "x", "y", "z" >>

\* String.prototype.toUpperCase, one character
UpperChar(ch) == IF \E i \in 1..26 : LowerCase[i] = ch
                 THEN BASE32[CHOOSE i \in 1..26 : LowerCase[i] = ch]
                 ELSE ch

ToUpperCase(s) == [i \in 1..Len(s) |-> UpperChar(s[i])]

\* s.replace(/=+$/, '')
RECURSIVE StripTrailingEq(_)
StripTrailingEq(s) == IF Len(s) > 0 /\ s[Len(s)] = "="
                      THEN StripTrailingEq(SubSeq(s, 1, Len(s) - 1))
                      ELSE s

\* s.replace(/[^A-Z2-7]/g, '')
StripNonAlphabet(s) == SelectSeq(s, LAMBDA ch : ch \in Alphabet)

----------------------------------------------------------------------------
(* Base32 encoder: src/src/2.base32encoder.ts *)

\* the inner loop: while (bits >= 5) { out += BASE32[(value >>> (bits-5)) & 31]; bits -= 5 }
RECURSIVE EncodeDrain(_, _, _)
EncodeDrain(value, bits, out) ==
    IF bits >= 5
    THEN EncodeDrain(value, bits - 5,
            Append(out, Base32At(WordToInt(BitAnd(Ushr(value, bits - 5), ToWord(31))))))
    ELSE [value |-> value, bits |-> bits, out |-> out]

\* the outer loop: for (const b of buf) { value = (value << 8) | b; bits += 8; ... }
RECURSIVE EncodeLoop(_, _, _, _, _)
EncodeLoop(b, i, value, bits, out) ==
    IF i > Len(b)
    THEN [value |-> value, bits |-> bits, out |-> out]
    ELSE LET v == BitOr(Shl(value, 8), ToWord(b[i]))
             d == EncodeDrain(v, bits + 8, out)
         IN  EncodeLoop(b, i + 1, d.value, d.bits, d.out)

\* mutant: the trailing partial group is not emitted
base32Encode_NoTail(b) == EncodeLoop(b, 1, ToWord(0), 0, <<>>).out

base32Encode(b) ==
    LET s == EncodeLoop(b, 1, ToWord(0), 0, <<>>)
    IN  IF s.bits > 0
        THEN Append(s.out,
                Base32At(WordToInt(BitAnd(Shl(s.value, 5 - s.bits), ToWord(31)))))
        ELSE s.out

----------------------------------------------------------------------------
(* Base32 decoder, Node version: 3.base32decoder (TotpApp.tsx 448-495) *)

\* for (const ch of clean) { value = (value << 5) | index; bits += 5;
\*                           if (bits >= 8) { bytes.push(...); bits -= 8 } }
RECURSIVE DecodeLoop(_, _, _, _, _)
DecodeLoop(s, i, value, bits, out) ==
    IF i > Len(s)
    THEN [value |-> value, bits |-> bits, out |-> out]
    ELSE LET v == BitOr(Shl(value, 5), ToWord(IndexOf(s[i])))
             n == bits + 5
         IN  IF n >= 8
             THEN DecodeLoop(s, i + 1, v, n - 8,
                     Append(out, WordToInt(BitAnd(Ushr(v, n - 8), ToWord(255)))))
             ELSE DecodeLoop(s, i + 1, v, n, out)

\* mutant: the byte is taken from the low end of the accumulator
base32Decode_LowBits(str) ==
    LET s == StripNonAlphabet(StripTrailingEq(ToUpperCase(str)))
        RECURSIVE L(_, _, _, _)
        L(i, value, bits, out) ==
            IF i > Len(s) THEN out
            ELSE LET v == BitOr(Shl(value, 5), ToWord(IndexOf(s[i])))
                     n == bits + 5
                 IN  IF n >= 8
                     THEN L(i + 1, v, n - 8,
                            Append(out, WordToInt(BitAnd(v, ToWord(255)))))
                     ELSE L(i + 1, v, n, out)
    IN  L(1, ToWord(0), 0, <<>>)

\* mutant: a byte is emitted only when more than 8 bits are valid
base32Decode_Above8(str) ==
    LET s == StripNonAlphabet(StripTrailingEq(ToUpperCase(str)))
        RECURSIVE L(_, _, _, _)
        L(i, value, bits, out) ==
            IF i > Len(s) THEN out
            ELSE LET v == BitOr(Shl(value, 5), ToWord(IndexOf(s[i])))
                     n == bits + 5
                 IN  IF n > 8
                     THEN L(i + 1, v, n - 8,
                            Append(out, WordToInt(BitAnd(Ushr(v, n - 8), ToWord(255)))))
                     ELSE L(i + 1, v, n, out)
    IN  L(1, ToWord(0), 0, <<>>)

\* mutant: characters outside A-Z2-7 are removed before the text is uppercased
base32Decode_StripFirst(str) ==
    DecodeLoop(ToUpperCase(StripNonAlphabet(StripTrailingEq(str))),
               1, ToWord(0), 0, <<>>).out

base32Decode(str) ==
    LET clean == StripNonAlphabet(StripTrailingEq(ToUpperCase(str)))
    IN  DecodeLoop(clean, 1, ToWord(0), 0, <<>>).out

(* Base32 decoder, browser version: lib/totp (unnamed/part_000 42-63) *)

\* as DecodeLoop, with: const idx = BASE32.indexOf(char); if (idx === -1) continue;
RECURSIVE DecodeLoopBrowser(_, _, _, _, _)
DecodeLoopBrowser(s, i, value, bits, out) ==
    IF i > Len(s)
    THEN [value |-> value, bits |-> bits, out |-> out]
    ELSE IF IndexOf(s[i]) = -1
    THEN DecodeLoopBrowser(s, i + 1, value, bits, out)
    ELSE LET v == BitOr(Shl(value, 5), ToWord(IndexOf(s[i])))
             n == bits + 5
         IN  IF n >= 8
             THEN DecodeLoopBrowser(s, i + 1, v, n - 8,
                     Append(out, WordToInt(BitAnd(Ushr(v, n - 8), ToWord(255)))))
             ELSE DecodeLoopBrowser(s, i + 1, v, n, out)

base32DecodeBrowser(str) ==
    DecodeLoopBrowser(StripTrailingEq(ToUpperCase(str)), 1, ToWord(0), 0, <<>>).out

----------------------------------------------------------------------------
(* Decimal strings *)

DigitChars == << "0", "1", "2", "3", "4", "5", "6", "7", "8", "9" >>

\* Number.prototype.toString() of a non-negative integer
RECURSIVE NumToString(_)
NumToString(n) == IF n < 10 THEN << DigitChars[n + 1] >>
                  ELSE Append(NumToString(n \div 10), DigitChars[(n % 10) + 1])

\* String.prototype.padStart(width, pad), pad a single character
RECURSIVE PadStart(_, _, _)
PadStart(s, width, pad) == IF Len(s) >= width THEN s
                           ELSE PadStart(<<pad>> \o s, width, pad)

----------------------------------------------------------------------------
(* String-based reference codecs: base32EncodeString (2.base32encoder.ts
   62-98) and base32DecoderString (TotpApp.tsx 507-558) *)

\* Number.prototype.toString(2)
RECURSIVE ToBinaryString(_)
ToBinaryString(n) ==
    IF n < 0 THEN << "-" >> \o ToBinaryString(0 - n)
    ELSE IF n < 2 THEN << DigitChars[n + 1] >>
    ELSE Append(ToBinaryString(n \div 2), DigitChars[(n % 2) + 1])

\* String.prototype.padEnd(width, pad), pad a single character
RECURSIVE PadEnd(_, _, _)
PadEnd(s, width, pad) == IF Len(s) >= width THEN s
                         ELSE PadEnd(Append(s, pad), width, pad)

\* String.prototype.slice(from, to) and substring(from, to), 0 <= from <= to
Slice(s, from, to) ==
    SubSeq(s, from + 1, IF to < Len(s) THEN to ELSE Len(s))

\* the value of the binary digits s[1..k]
RECURSIVE BinaryValue(_, _)
BinaryValue(s, k) ==
    IF k = 0 THEN 0
    ELSE 2 * BinaryValue(s, k - 1) + (IF s[k] = "1" THEN 1 ELSE 0)

\* the length of the longest prefix of s made of binary digits
RECURSIVE BinaryPrefix(_, _)
BinaryPrefix(s, k) ==
    IF k < Len(s) /\ s[k + 1] \in {"0", "1"} THEN BinaryPrefix(s, k + 1) ELSE k

\* parseInt(s, 2): the digits up to the first other character; NaN, which
\* a byte array stores as 0, when there is none
ParseIntBinary(s) == BinaryValue(s, BinaryPrefix(s, 0))

\* for (const byte of buf) binary += byte.toString(2).padStart(8, '0')
RECURSIVE BytesToBinary(_, _, _)
BytesToBinary(b, i, binary) ==
    IF i > Len(b) THEN binary
    ELSE BytesToBinary(b, i + 1, binary \o PadStart(ToBinaryString(b[i]), 8, "0"))

\* for (let i = 0; i < binary.length; i += 5) { ... out += BASE32[index] }
RECURSIVE EncodeChunks(_, _, _)
EncodeChunks(binary, i, out) ==
    IF ~(i < Len(binary)) THEN out
    ELSE LET chunk == Slice(binary, i, i + 5)
             padded == PadEnd(chunk, 5, "0")
             index == ParseIntBinary(padded)
         IN  EncodeChunks(binary, i + 5, Append(out, Base32At(index)))

\* mutant: the last chunk is padded on the left
base32EncodeString_PadLeft(b) ==
    LET binary == BytesToBinary(b, 1, << >>)
        RECURSIVE L(_, _)
        L(i, out) ==
            IF ~(i < Len(binary)) THEN out
            ELSE L(i + 5, Append(out, Base32At(ParseIntBinary(
                                   PadStart(Slice(binary, i, i + 5), 5, "0")))))
    IN  L(0, << >>)

base32EncodeString(b) ==
    EncodeChunks(BytesToBinary(b, 1, << >>), 0, << >>)

\* for (let s of str) { index = BASE32.indexOf(s); index.toString(2).padStart(5, '0') }
\* and bit32Binary.join('')
RECURSIVE CharsToBinary(_, _, _)
CharsToBinary(str, i, binaryString) ==
    IF i > Len(str) THEN binaryString
    ELSE CharsToBinary(str, i + 1,
            binaryString \o PadStart(ToBinaryString(IndexOf(str[i])), 5, "0"))

\* for (let i = 0; i < binaryString.length; i += 8)
\*     if (i + 8 <= binaryString.length) bit64Binary.push(parseInt(byteBits, 2))
RECURSIVE DecodeGroups(_, _, _)
DecodeGroups(binaryString, i, out) ==
    IF ~(i < Len(binaryString)) THEN out
    ELSE IF i + 8 <= Len(binaryString)
    THEN DecodeGroups(binaryString, i + 8,
            Append(out, ParseIntBinary(Slice(binaryString, i, i + 8))))
    ELSE DecodeGroups(binaryString, i + 8, out)

\* mutant: a last group of fewer than 8 bits is converted too
base32DecoderString_Partial(str) ==
    LET binaryString == CharsToBinary(str, 1, << >>)
        RECURSIVE L(_, _)
        L(i, out) ==
            IF ~(i < Len(binaryString)) THEN out
            ELSE L(i + 8, Append(out, ParseIntBinary(Slice(binaryString, i, i + 8))))
    IN  L(0, << >>)

base32DecoderString(str) ==
    DecodeGroups(CharsToBinary(str, 1, << >>), 0, << >>)

----------------------------------------------------------------------------
(* TOTP generation: 4.generate_totp (TotpApp.tsx 634-669), 0.constants *)

STEP == 30
DIGITS == 6

\* the number an 8-byte message spells, when it is small enough to name it
MessageValue(msg) ==
    IF Len(msg) = 8 /\ (\A i \in 1..4 : msg[i] = 0) /\ msg[5] < 128
    THEN ((msg[5] * 256 + msg[6]) * 256 + msg[7]) * 256 + msg[8]
    ELSE -1

\* a 20-byte digest that carries the bytes p at the given offset, the offset
\* in the low nibble of its last byte, and fill everywhere else
MkDigest(offset, p, hi, fill) ==
    [i \in 1..20 |->
        IF i = 20 THEN hi * 16 + offset
        ELSE IF i - 1 >= offset /\ i - 1 <= offset + 3 THEN p[i - offset]
        ELSE fill]

DefaultDigest == MkDigest(7, <<1, 2, 3, 4>>, 0, 85)

\* createHmac('sha1', key).update(msg).digest(): a fixed function of key and
\* message; oracle holds the digests of the keys and messages of interest
hmacSha1(key, msg) ==
    IF key \in DOMAIN oracle /\ MessageValue(msg) \in DOMAIN oracle[key]
    THEN oracle[key][MessageValue(msg)]
    ELSE DefaultDigest

\* A non-negative integer Number n is the pair <<n div 2^24, n mod 2^24>>,
\* which holds every integer below 2^53 exactly
NumOf(n) == <<n \div Pow2(24), n % Pow2(24)>>

\* ToInt32(ctr), the operand of &: the low 32 bits of the Number
NumToWord(ctr) ==
    [i \in BitPos |-> IF i < 24 THEN (ctr[2] \div Pow2(i)) % 2
                                ELSE (ctr[1] \div Pow2(i - 24)) % 2]

\* ctr % 256
NumMod256(ctr) == ctr[2] % 256

\* mutant: ctr >> 8, a shift of the value reduced to 32 bits
NumFloorDiv256_Shift(ctr) ==
    <<0, (ctr[1] % 256) * Pow2(16) + ctr[2] \div 256>>

\* Math.floor(ctr / 256)
NumFloorDiv256(ctr) ==
    <<ctr[1] \div 256, (ctr[1] % 256) * Pow2(16) + ctr[2] \div 256>>

\* for (let i = 7; i >= 0; i--) { buf[i] = ctr & 0xff; ctr = Math.floor(ctr / 256) }
RECURSIVE PackCounter(_, _, _)
PackCounter(b, ctr, i) ==
    IF i < 0 THEN b
    ELSE PackCounter([b EXCEPT ![i + 1] = WordToInt(BitAnd(NumToWord(ctr), ToWord(255)))],
                     NumFloorDiv256(ctr), i - 1)

\* totpNoBitManipulation: buf[i] = ctr % 256; ctr = Math.floor(ctr / 256)
RECURSIVE PackCounterNoBits(_, _, _)
PackCounterNoBits(b, ctr, i) ==
    IF i < 0 THEN b
    ELSE PackCounterNoBits([b EXCEPT ![i + 1] = NumMod256(ctr)],
                           NumFloorDiv256(ctr), i - 1)

\* h[i], with JavaScript's 0-based index
At(h, i) == h[i + 1]

\* the offset of the dynamic truncation: h[h.length - 1] & 0x0f
TruncOffset(h) == WordToInt(BitAnd(ToWord(At(h, Len(h) - 1)), ToWord(15)))

\* mutant: the first byte is masked with 0xff, the sign bit is kept
Truncate_NoMask(h) ==
    LET offset == TruncOffset(h)
    IN  WordToInt(
          BitOr(BitOr(BitOr(
            Shl(BitAnd(ToWord(At(h, offset)), ToWord(255)), 24),
            Shl(BitAnd(ToWord(At(h, offset + 1)), ToWord(255)), 16)),
            Shl(BitAnd(ToWord(At(h, offset + 2)), ToWord(255)), 8)),
            BitAnd(ToWord(At(h, offset + 3)), ToWord(255))))

\* dynamic truncation (RFC 4226): the 31-bit number taken from the digest
Truncate(h) ==
    LET offset == WordToInt(BitAnd(ToWord(At(h, Len(h) - 1)), ToWord(15)))
    IN  WordToInt(
          BitOr(BitOr(BitOr(
            Shl(BitAnd(ToWord(At(h, offset)), ToWord(127)), 24),
            Shl(BitAnd(ToWord(At(h, offset + 1)), ToWord(255)), 16)),
            Shl(BitAnd(ToWord(At(h, offset + 2)), ToWord(255)), 8)),
            BitAnd(ToWord(At(h, offset + 3)), ToWord(255))))

\* totpNoBitManipulation: the same number by division and multiplication
TruncateNoBits(hmac) ==
    LET lastByte == At(hmac, Len(hmac) - 1)
        offset == lastByte % 16
        p0 == IF At(hmac, offset) >= 128 THEN At(hmac, offset) - 128
                                         ELSE At(hmac, offset)
        p1 == At(hmac, offset + 1)
        p2 == At(hmac, offset + 2)
        p3 == At(hmac, offset + 3)
    IN  p0 * (256 ^ 3) + p1 * (256 ^ 2) + p2 * 256 + p3

\* the digest totp computes for a secret and a time
TotpDigest(secretBase32, timeSeconds) ==
    LET key == base32Decode(secretBase32)
        counter == timeSeconds \div STEP
        msg == PackCounter([i \in 1..8 |-> 0], NumOf(counter), 7)
    IN  hmacSha1(key, msg)

\* mutant: the time is used as the counter, without the division by STEP
totp_NoStep(secretBase32, timeSeconds) ==
    LET key == base32Decode(secretBase32)
        msg == PackCounter([i \in 1..8 |-> 0], NumOf(timeSeconds), 7)
        binary == Truncate(hmacSha1(key, msg))
    IN  PadStart(NumToString(binary % (10 ^ DIGITS)), DIGITS, "0")

\* mutant: the code is not padded to DIGITS characters
totp_NoPad(secretBase32, timeSeconds) ==
    NumToString(Truncate(TotpDigest(secretBase32, timeSeconds)) % (10 ^ DIGITS))

\* mutant: an empty decoded secret is rejected
totp_RejectEmpty(secretBase32, timeSeconds) ==
    IF base32Decode(secretBase32) = <<>> THEN << "InvalidSecret" >>
    ELSE PadStart(NumToString(Truncate(TotpDigest(secretBase32, timeSeconds))
                                % (10 ^ DIGITS)), DIGITS, "0")

totp(secretBase32, timeSeconds) ==
    LET binary == Truncate(TotpDigest(secretBase32, timeSeconds))
    IN  PadStart(NumToString(binary % (10 ^ DIGITS)), DIGITS, "0")

----------------------------------------------------------------------------
(* Verification: src/src/6.buildURI.ts 25-56 *)

\* Math.floor(Date.now() / 1000)
NowSeconds == clock \div 1000

\* for (let w = -window; w <= window; w++) { const t = totp(...); if (t === token) return ... }
\* gen lists the times for which a code was generated, in order
RECURSIVE VerifyLoop(_, _, _, _, _, _)
VerifyLoop(secretBase32, token, window, now, w, gen) ==
    IF w > window
    THEN [ok |-> FALSE, drift |-> "none", gen |-> gen]
    ELSE LET t == totp(secretBase32, now + w * STEP)
         IN  IF t = token
             THEN [ok |-> TRUE, drift |-> w, gen |-> Append(gen, now + w * STEP)]
             ELSE VerifyLoop(secretBase32, token, window, now, w + 1,
                             Append(gen, now + w * STEP))

\* mutant: the token is compared as typed, without padStart
verifyTotp_NoPad(secretBase32, token, window) ==
    VerifyLoop(secretBase32, token, window, NowSeconds, -window, <<>>)

\* mutant: the window is searched from +window downwards
verifyTotp_Descending(secretBase32, token, window) ==
    LET tok == PadStart(token, 6, "0")
        now == NowSeconds
        RECURSIVE L(_, _)
        L(w, gen) ==
            IF w < -window THEN [ok |-> FALSE, drift |-> "none", gen |-> gen]
            ELSE IF totp(secretBase32, now + w * STEP) = tok
                 THEN [ok |-> TRUE, drift |-> w, gen |-> Append(gen, now + w * STEP)]
                 ELSE L(w - 1, Append(gen, now + w * STEP))
    IN  L(window, <<>>)

\* mutant: the last step of the window is left out (w < window)
verifyTotp_ShortWindow(secretBase32, token, window) ==
    VerifyLoop(secretBase32, PadStart(token, 6, "0"), window - 1, NowSeconds,
               -window, <<>>)

\* mutant: the window is one step wider on both sides
verifyTotp_WideWindow(secretBase32, token, window) ==
    VerifyLoop(secretBase32, PadStart(token, 6, "0"), window + 1,
               NowSeconds, -(window + 1), <<>>)

\* mutant: the drift is reported as a number of steps, without its sign
verifyTotp_DriftAbs(secretBase32, token, window) ==
    LET r == VerifyLoop(secretBase32, PadStart(token, 6, "0"), window,
                        NowSeconds, -window, <<>>)
    IN  IF r.ok /\ r.drift < 0 THEN [r EXCEPT !.drift = -r.drift] ELSE r

\* mutant: the loop starts at the current step (w = 0)
verifyTotp_FromZero(secretBase32, token, window) ==
    VerifyLoop(secretBase32, PadStart(token, 6, "0"), window, NowSeconds, 0, <<>>)

verifyTotp(secretBase32, token, window) ==
    VerifyLoop(secretBase32, PadStart(token, 6, "0"), window, NowSeconds,
               -window, <<>>)

----------------------------------------------------------------------------
(* Inputs *)

ByteValues == {0, 15, 165, 255}

ByteSeqs == UNION { [1..n -> ByteValues] : n \in 0..MaxLen }

SecretPlain == << "G", "E", "Z", "D", "G" >>
SecretLoose == << "g", "e", "=", "z", " ", "d", "g", "=", "=" >>
SecretEmpty == << >>
SecretJunk  == << "=", "1", "!" >>

TotpSecrets == {SecretPlain, SecretLoose, SecretEmpty, SecretJunk}
VerifySecrets == {SecretPlain}

DigestLow  == MkDigest(0, <<128, 0, 0, 42>>, 5, 170)        \* code 000042
DigestHigh == MkDigest(15, <<255, 255, 255, 255>>, 15, 0)   \* code 483647
DigestZero == MkDigest(10, <<0, 15, 66, 64>>, 0, 255)       \* code 000000

Digests == {DigestLow, DigestHigh, DigestZero}
VerifyDigests == {DigestLow, DigestHigh}

ClockEnd == GenClockStart + MaxTicks * TickMs

\* the explicit timestamps handed to totp
TotpTimes == {1, 29, 30}

\* the time steps totp is asked about
TotpCounters == { t \div STEP : t \in TotpTimes } \cup
                ( ((GenClockStart \div 1000) \div STEP) .. ((ClockEnd \div 1000) \div STEP) )

\* the steps around now whose codes are offered as tokens: the default
\* window and the two steps on either side of it
NearSteps == (-3) .. 3

\* the steps a window can cover
WindowSteps == (-MaxWindow) .. MaxWindow

\* the time steps verifyTotp is asked about
VerifyCounters ==
    { ((ClockStart \div 1000) + k * STEP) \div STEP : k \in NearSteps \cup WindowSteps }

Oracles(s, counters, digests) == [ {base32Decode(s)} -> [counters -> digests] ]

\* a code as a user may type it: with some of its leading zeros left out
ZeroForms(code) ==
    { SubSeq(code, j, Len(code)) :
        j \in { k \in 1..(Len(code) + 1) : \A i \in 1..(k - 1) : code[i] = "0" } }

LiteralTokens == { << "1", "2", "3", "4", "5", "6" >>,
                   << "0", "0", "0", "0", "0", "4", "2" >> }

TokenInputs ==
    LiteralTokens \cup
    UNION { ZeroForms(totp(secret, NowSeconds + k * STEP)) : k \in NearSteps }

----------------------------------------------------------------------------
(* The codec round trip: index.ts / 3.base32decoder demo lines *)

InitCodec ==
    /\ buf \in ByteSeqs
    /\ text = << >>
    /\ bytes = << >>
    /\ bytesB = << >>
    /\ cpc = "start"
    /\ base = << >>
    /\ edits = 0
    /\ secret = << >>
    /\ oracle = << >>
    /\ clock = 0
    /\ generated = {}
    /\ vcall = {}
    /\ PureIdle
    /\ AsyncIdle
    /\ AppIdle

Encode ==
    /\ cpc = "start"
    /\ text' = base32Encode(buf)
    /\ cpc' = "encoded"
    /\ UNCHANGED <<buf, bytes, bytesB, base, edits, totpVars, pureVars, asyncVars, appVars>>

Decode ==
    /\ cpc = "encoded"
    /\ bytes' = base32Decode(text)
    /\ cpc' = "decoded"
    /\ UNCHANGED <<buf, text, bytesB, base, edits, totpVars, pureVars, asyncVars, appVars>>

DecodeBrowser ==
    /\ cpc = "encoded"
    /\ bytesB' = base32DecodeBrowser(text)
    /\ cpc' = "decodedB"
    /\ UNCHANGED <<buf, text, bytes, base, edits, totpVars, pureVars, asyncVars, appVars>>

NextCodec == Encode \/ Decode \/ DecodeBrowser

SpecCodec == InitCodec /\ [][NextCodec]_vars

----------------------------------------------------------------------------
(* Decoding a text as a user may write it *)

BaseTexts == { << >>,
               << "G" >>,
               << "M", "Z", "7", "A" >>,
               << "G", "E", "Z", "D", "G" >> }

\* characters that are outside the alphabet also after uppercasing
JunkChars == { "=", "1", " " }

\* s with ch put in before position i
InsertAt(s, i, ch) == SubSeq(s, 1, i - 1) \o << ch >> \o SubSeq(s, i, Len(s))

\* String.prototype.toLowerCase, one character
LowerChar(ch) == IF \E i \in 1..26 : BASE32[i] = ch
                 THEN LowerCase[CHOOSE i \in 1..26 : BASE32[i] = ch]
                 ELSE ch

InitText ==
    /\ base \in BaseTexts
    /\ text = base
    /\ edits = 0
    /\ buf = << >>
    /\ bytes = << >>
    /\ bytesB = << >>
    /\ cpc = "encoded"
    /\ secret = << >>
    /\ oracle = << >>
    /\ clock = 0
    /\ generated = {}
    /\ vcall = {}
    /\ PureIdle
    /\ AsyncIdle
    /\ AppIdle

\* a letter is written in lower case
EditCase ==
    /\ cpc = "encoded"
    /\ edits < MaxEdits
    /\ \E i \in 1..Len(text) :
          /\ LowerChar(text[i]) # text[i]
          /\ text' = [text EXCEPT ![i] = LowerChar(text[i])]
    /\ edits' = edits + 1
    /\ UNCHANGED <<buf, bytes, bytesB, cpc, base, totpVars, pureVars, asyncVars, appVars>>

\* a padding character is appended
EditPad ==
    /\ cpc = "encoded"
    /\ edits < MaxEdits
    /\ text' = Append(text, "=")
    /\ edits' = edits + 1
    /\ UNCHANGED <<buf, bytes, bytesB, cpc, base, totpVars, pureVars, asyncVars, appVars>>

\* a character outside the alphabet is put in somewhere
EditJunk ==
    /\ cpc = "encoded"
    /\ edits < MaxEdits
    /\ \E i \in 1..(Len(text) + 1), ch \in JunkChars :
          text' = InsertAt(text, i, ch)
    /\ edits' = edits + 1
    /\ UNCHANGED <<buf, bytes, bytesB, cpc, base, totpVars, pureVars, asyncVars, appVars>>

NextText == EditCase \/ EditPad \/ EditJunk \/ Decode \/ DecodeBrowser

SpecText == InitText /\ [][NextText]_vars

----------------------------------------------------------------------------
(* Code generation *)

InitTotp ==
    /\ secret \in TotpSecrets
    /\ oracle \in Oracles(secret, TotpCounters, Digests)
    /\ clock = GenClockStart
    /\ generated = {}
    /\ vcall = {}
    /\ PureIdle
    /\ AsyncIdle
    /\ AppIdle
    /\ buf = << >>
    /\ text = << >>
    /\ bytes = << >>
    /\ bytesB = << >>
    /\ cpc = "idle"
    /\ base = << >>
    /\ edits = 0

\* Date.now() moves on
Tick ==
    /\ clock < ClockEnd
    /\ clock' = clock + TickMs
    /\ UNCHANGED <<secret, oracle, generated, vcall, codecVars, pureVars, asyncVars, appVars>>

\* totp(secret, t)
Generate ==
    /\ \E t \in TotpTimes :
          generated' = generated \cup {[t |-> t, code |-> totp(secret, t)]}
    /\ UNCHANGED <<secret, oracle, clock, vcall, codecVars, pureVars, asyncVars, appVars>>

\* totp(secret): timeSeconds defaults to Math.floor(Date.now() / 1000)
GenerateNow ==
    /\ generated' = generated \cup
                      {[t |-> NowSeconds, code |-> totp(secret, NowSeconds)]}
    /\ UNCHANGED <<secret, oracle, clock, vcall, codecVars, pureVars, asyncVars, appVars>>

NextTotp == Tick \/ Generate \/ GenerateNow

SpecTotp == InitTotp /\ [][NextTotp]_vars

----------------------------------------------------------------------------
(* Verification *)

InitVerify ==
    /\ secret \in VerifySecrets
    /\ oracle \in Oracles(secret, VerifyCounters, VerifyDigests)
    /\ clock = ClockStart
    /\ generated = {}
    /\ vcall = {}
    /\ PureIdle
    /\ AsyncIdle
    /\ AppIdle
    /\ buf = << >>
    /\ text = << >>
    /\ bytes = << >>
    /\ bytesB = << >>
    /\ cpc = "idle"
    /\ base = << >>
    /\ edits = 0

\* verifyTotp(secret, token, window)
Verify ==
    /\ vcall = {}
    /\ \E token \in TokenInputs, window \in 0..MaxWindow :
          vcall' = {[token |-> token, window |-> window, now |-> NowSeconds,
                     res |-> verifyTotp(secret, token, window)]}
    /\ UNCHANGED <<secret, oracle, clock, generated, codecVars, pureVars, asyncVars, appVars>>

\* the caller takes the result
Return ==
    /\ vcall # {}
    /\ vcall' = {}
    /\ UNCHANGED <<secret, oracle, clock, generated, codecVars, pureVars, asyncVars, appVars>>

NextVerify == Verify \/ Return

SpecVerify == InitVerify /\ [][NextVerify]_vars

----------------------------------------------------------------------------
(* Browser library (unnamed/part_000): asynchronous totp and verifyTotp.
   A call runs until its next await; what it has in its locals stays with
   the call while other calls run and the clock moves on. *)

\* totp up to `await hmacSha1(secret, buf)`: the key and the message
TotpUntilAwait(secretBase32, timeSeconds) ==
    LET counter == timeSeconds \div STEP
    IN  [key |-> base32DecodeBrowser(secretBase32),
         msg |-> PackCounter([i \in 1..8 |-> 0], NumOf(counter), 7)]

\* totp after the await: truncation of the digest and formatting
TotpAfterAwait(key, msg) ==
    LET binary == Truncate(hmacSha1(key, msg))
    IN  PadStart(NumToString(binary % (10 ^ DIGITS)), DIGITS, "0")

\* mutant: the clock is read again in every iteration
AwaitedTime_Reread(c) == NowSeconds + c.w * STEP

\* the time verifyTotp hands to totp: now + w * STEP
AwaitedTime(c) == c.now + c.w * STEP

\* verifyTotp enters iteration c.w and is suspended in totp
EnterIteration(c) ==
    LET p == TotpUntilAwait(c.secretBase32, AwaitedTime(c))
    IN  [c EXCEPT !.pc = "await", !.key = p.key, !.msg = p.msg]

\* verifyTotp resumes with the code t: the comparison, then the return or
\* the next iteration
AfterAwait(c) ==
    LET t == TotpAfterAwait(c.key, c.msg)
    IN  IF t = c.token
        THEN [c EXCEPT !.pc = "done", !.ok = TRUE, !.drift = c.w]
        ELSE IF c.w + 1 <= c.window
        THEN EnterIteration([c EXCEPT !.w = c.w + 1])
        ELSE [c EXCEPT !.pc = "done", !.ok = FALSE]

\* the steps whose digests are chosen freely
AsyncCounters ==
    { (GenClockStart \div 1000) \div STEP, (ClockEnd \div 1000) \div STEP }

\* the tokens verified: the codes of these steps
AsyncTokens ==
    { totp(secret, GenClockStart \div 1000), totp(secret, ClockEnd \div 1000) }

InitAsync ==
    /\ secret = SecretPlain
    /\ oracle \in Oracles(secret, AsyncCounters, VerifyDigests)
    /\ clock = GenClockStart
    /\ generated = {}
    /\ vcall = {}
    /\ AsyncIdle
    /\ AppIdle
    /\ digest = << >>
    /\ trunc = {}
    /\ counterIn = << >>
    /\ packed = {}
    /\ textS = << >>
    /\ bytesS = << >>
    /\ buf = << >>
    /\ text = << >>
    /\ bytes = << >>
    /\ bytesB = << >>
    /\ cpc = "idle"
    /\ base = << >>
    /\ edits = 0

\* verifyTotp(secret, token, window) is called and runs to its first await
VerifyCall ==
    /\ vtask.pc = "idle"
    /\ secret # << >>
    /\ \E token \in AsyncTokens, window \in 0..MaxWindow :
          vtask' = EnterIteration([VerifyTaskIdle EXCEPT
                                     !.secretBase32 = secret,
                                     !.token = PadStart(token, 6, "0"),
                                     !.window = window,
                                     !.start = clock,
                                     !.now = NowSeconds,
                                     !.w = -window])
    /\ UNCHANGED <<ttask, codecVars, totpVars, pureVars, appVars>>

\* the awaited totp resolves: the comparison, then return or next iteration
VerifyResume ==
    /\ vtask.pc = "await"
    /\ vtask' = AfterAwait(vtask)
    /\ UNCHANGED <<ttask, codecVars, totpVars, pureVars, appVars>>

\* the caller takes the result of verifyTotp
VerifyReturn ==
    /\ vtask.pc = "done"
    /\ vtask' = VerifyTaskIdle
    /\ UNCHANGED <<ttask, codecVars, totpVars, pureVars, appVars>>

\* totp(secret) is called and runs to its await
TotpCall ==
    /\ ttask.pc = "idle"
    /\ secret # << >>
    /\ LET p == TotpUntilAwait(secret, NowSeconds)
       IN  ttask' = [TotpTaskIdle EXCEPT !.pc = "await", !.start = clock,
                                        !.key = p.key, !.msg = p.msg]
    /\ UNCHANGED <<vtask, codecVars, totpVars, pureVars, appVars>>

\* the digest arrives and totp returns its code
TotpResume ==
    /\ ttask.pc = "await"
    /\ ttask' = [ttask EXCEPT !.pc = "done",
                              !.code = TotpAfterAwait(ttask.key, ttask.msg)]
    /\ UNCHANGED <<vtask, codecVars, totpVars, pureVars, appVars>>

\* the caller takes the result of totp
TotpReturn ==
    /\ ttask.pc = "done"
    /\ ttask' = TotpTaskIdle
    /\ UNCHANGED <<vtask, codecVars, totpVars, pureVars, appVars>>

NextAsync ==
    \/ Tick
    \/ VerifyCall \/ VerifyResume \/ VerifyReturn
    \/ TotpCall \/ TotpResume \/ TotpReturn

SpecAsync == InitAsync /\ [][NextAsync]_vars

----------------------------------------------------------------------------
(* The React component TotpApp (TotpApp.tsx 10-75). A handler runs to its
   end or to its await; effects run with the state change that causes them;
   what is awaited, the interval and the timeouts come back as steps of
   their own. *)

\* randomBytes(20), shortened
RandomBytes == { << 49, 50, 51 >>, << 255, 0, 15 >> }

\* generateSecret(): base32Encode(randomBytes(bytes))
generateSecret(random) == base32Encode(random)

\* what is typed into the manual secret field
ManualInputs == { << " " >>, << " ", "g", "e", "z", "d", "g", " " >> }

\* String.prototype.trim, for blanks
RECURSIVE TrimStart(_)
TrimStart(s) == IF Len(s) > 0 /\ s[1] = " " THEN TrimStart(SubSeq(s, 2, Len(s))) ELSE s
RECURSIVE TrimEnd(_)
TrimEnd(s) == IF Len(s) > 0 /\ s[Len(s)] = " " THEN TrimEnd(SubSeq(s, 1, Len(s) - 1)) ELSE s
Trim(s) == TrimEnd(TrimStart(s))

\* an awaited verifyTotp(secretBase32, token) run to its return, window = 1,
\* with Date.now() = startMs at the call
RECURSIVE RunToDone(_)
RunToDone(c) == IF c.pc = "done" THEN c ELSE RunToDone(AfterAwait(c))

AwaitVerifyTotp(secretBase32, token, startMs) ==
    RunToDone(EnterIteration([VerifyTaskIdle EXCEPT
                                !.secretBase32 = secretBase32,
                                !.token = PadStart(token, 6, "0"),
                                !.window = 1,
                                !.start = startMs,
                                !.now = startMs \div 1000,
                                !.w = -1]))

\* updateTotp() up to `await totp(secret)`, totp up to its own await: the
\* secret of the closure, and the key and the message of the HMAC awaited
UpdateUntilAwait(secretBase32) ==
    LET p == TotpUntilAwait(secretBase32, NowSeconds)
    IN  [secret |-> secretBase32, key |-> p.key, msg |-> p.msg]

\* the values generateSecret() returns
GeneratedSecrets == { generateSecret(random) : random \in RandomBytes }

\* manualSecret.trim().toUpperCase(), where manualSecret.trim() is not empty
ManualSecrets ==
    { ToUpperCase(Trim(manualSecret)) :
        manualSecret \in { m \in ManualInputs : Trim(m) # << >> } }

AppClockEnd == AppClockStart + MaxAppSeconds * 1000

\* what is typed into the code field: the code on display
TypedCodes == { currentTotp.code }

InitApp ==
    /\ secret = << >>
    /\ oracle \in Oracles(SecretPlain, {(AppClockStart \div 1000) \div STEP}, VerifyDigests)
    /\ clock = AppClockStart
    /\ generated = {}
    /\ vcall = {}
    /\ PureIdle
    /\ AsyncIdle
    /\ AppIdle
    /\ buf = << >>
    /\ text = << >>
    /\ bytes = << >>
    /\ bytesB = << >>
    /\ cpc = "idle"
    /\ base = << >>
    /\ edits = 0

\* setSecret(newSecret); setVerifyResult(null); and, when the secret differs,
\* the effect of [secret]: the cleanup clears the interval of the last run,
\* then, unless the secret is empty, updateTotp() is called and a new
\* interval is set
SetSecret(newSecret) ==
    /\ nChanges < MaxChanges
    /\ nChanges' = nChanges + 1
    /\ secret' = newSecret
    /\ verifyResult' = {}
    /\ IF newSecret = secret
       THEN UNCHANGED <<updates, intervals, intervalDue>>
       ELSE IF newSecret = << >>
       THEN /\ intervals' = intervals \ {secret}
            /\ intervalDue' = FALSE
            /\ UNCHANGED updates
       ELSE /\ intervals' = (intervals \ {secret}) \cup {newSecret}
            /\ intervalDue' = FALSE
            /\ updates' = updates \cup {UpdateUntilAwait(newSecret)}
    /\ UNCHANGED <<currentTotp, timeRemaining, verifs, timers, nVerifies,
                   oracle, clock, generated, vcall, codecVars, pureVars, asyncVars>>

\* the mount effect and the button "Generate New Secret"
handleGenerateSecret ==
    \E newSecret \in GeneratedSecrets : SetSecret(newSecret)

\* the button "Use Manual Secret"
handleUseManualSecret ==
    \E newSecret \in ManualSecrets : SetSecret(newSecret)

\* setInterval(updateTotp, 1000): the callback starts updateTotp(), which
\* waits for totp(secret) with the secret of the effect that set the interval
IntervalFire ==
    /\ intervalDue
    /\ Cardinality(updates) < MaxPending
    /\ \E x \in intervals :
          updates' = updates \cup {UpdateUntilAwait(x)}
    /\ intervalDue' = FALSE
    /\ UNCHANGED <<currentTotp, timeRemaining, verifyResult, verifs, timers, intervals,
                   nChanges, nVerifies, codecVars, totpVars, pureVars, asyncVars>>

\* updateTotp after `await totp(secret)`: setCurrentTotp, setTimeRemaining
UpdateResolve ==
    /\ \E u \in updates :
          /\ currentTotp' = [code |-> TotpAfterAwait(u.key, u.msg), secret |-> u.secret]
          /\ updates' = updates \ {u}
    /\ timeRemaining' = 30 - (NowSeconds % 30)
    /\ UNCHANGED <<verifyResult, verifs, timers, intervals, intervalDue,
                   nChanges, nVerifies, codecVars, totpVars, pureVars, asyncVars>>

\* handleVerifyCode up to `await verifyTotp(secret, verifyCode)`
handleVerifyCode ==
    /\ nVerifies < MaxVerifies
    /\ Cardinality(verifs) < MaxPending
    /\ secret # << >>
    /\ \E verifyCode \in TypedCodes :
          /\ Len(verifyCode) = 6
          /\ verifs' = verifs \cup {[secret |-> secret, token |-> verifyCode,
                                      start |-> clock]}
    /\ nVerifies' = nVerifies + 1
    /\ UNCHANGED <<currentTotp, timeRemaining, verifyResult, updates, timers, intervals,
                   intervalDue, nChanges, codecVars, totpVars, pureVars, asyncVars>>

\* handleVerifyCode after the await: setVerifyResult(result) and
\* setTimeout(() => setVerifyResult(null), 3000)
VerifyResolve ==
    /\ \E v \in verifs :
          LET result == AwaitVerifyTotp(v.secret, v.token, v.start)
          IN  /\ verifyResult' = {[ok |-> result.ok, drift |-> result.drift,
                                   secret |-> v.secret, setAt |-> clock]}
              /\ verifs' = verifs \ {v}
    /\ timers' = timers \cup {clock + 3000}
    /\ UNCHANGED <<currentTotp, timeRemaining, updates, intervals, intervalDue,
                   nChanges, nVerifies, codecVars, totpVars, pureVars, asyncVars>>

\* a timeout set by handleVerifyCode fires: setVerifyResult(null)
TimerFire ==
    /\ \E due \in timers :
          /\ clock >= due
          /\ timers' = timers \ {due}
    /\ verifyResult' = {}
    /\ UNCHANGED <<currentTotp, timeRemaining, updates, verifs, intervals, intervalDue,
                   nChanges, nVerifies, codecVars, totpVars, pureVars, asyncVars>>

\* a second passes
AppTick ==
    /\ clock < AppClockEnd
    /\ clock' = clock + 1000
    /\ intervalDue' = (intervals # {})
    /\ UNCHANGED <<currentTotp, timeRemaining, verifyResult, updates, verifs, timers,
                   intervals, nChanges, nVerifies,
                   secret, oracle, generated, vcall, codecVars, pureVars, asyncVars>>

NextApp ==
    \/ handleGenerateSecret \/ handleUseManualSecret
    \/ IntervalFire \/ UpdateResolve
    \/ handleVerifyCode \/ VerifyResolve \/ TimerFire
    \/ AppTick

SpecApp == InitApp /\ [][NextApp]_vars

----------------------------------------------------------------------------
(* testSpeed: the bitwise codecs compared with the string-based ones *)

InitRef ==
    /\ buf \in ByteSeqs
    /\ text = << >>
    /\ bytes = << >>
    /\ bytesB = << >>
    /\ cpc = "sample"
    /\ base = << >>
    /\ edits = 0
    /\ secret = << >>
    /\ oracle = << >>
    /\ clock = 0
    /\ generated = {}
    /\ vcall = {}
    /\ PureIdle
    /\ AsyncIdle
    /\ AppIdle

\* testSpeed of the encoder: both encoders on the sample
TestEncode ==
    /\ cpc = "sample"
    /\ text' = base32Encode(buf)
    /\ textS' = base32EncodeString(buf)
    /\ cpc' = "comparedE"
    /\ UNCHANGED <<buf, bytes, bytesB, base, edits, totpVars,
                   digest, trunc, counterIn, packed, bytesS, asyncVars, appVars>>

\* testSpeed of the decoder: both decoders on the encoded sample
TestDecode ==
    /\ cpc = "comparedE"
    /\ bytes' = base32Decode(text)
    /\ bytesS' = base32DecoderString(text)
    /\ cpc' = "comparedD"
    /\ UNCHANGED <<buf, text, bytesB, base, edits, totpVars,
                   digest, trunc, counterIn, packed, textS, asyncVars, appVars>>

NextRef == TestEncode \/ TestDecode

SpecRef == InitRef /\ [][NextRef]_vars

----------------------------------------------------------------------------
(* Dynamic truncation of a digest *)

TruncBytes == {0, 127, 128, 255}

TruncDigests ==
    { MkDigest(o, p, hi, 170) : o \in 0..15, p \in [1..4 -> TruncBytes], hi \in {0, 15} }

InitTrunc ==
    /\ digest \in TruncDigests
    /\ trunc = {}
    /\ counterIn = << >>
    /\ packed = {}
    /\ textS = << >>
    /\ bytesS = << >>
    /\ AsyncIdle
    /\ AppIdle
    /\ buf = << >>
    /\ text = << >>
    /\ bytes = << >>
    /\ bytesB = << >>
    /\ cpc = "idle"
    /\ base = << >>
    /\ edits = 0
    /\ secret = << >>
    /\ oracle = << >>
    /\ clock = 0
    /\ generated = {}
    /\ vcall = {}

\* steps 5 of totp and of totpNoBitManipulation on the digest
TruncateStep ==
    /\ digest # << >>
    /\ trunc = {}
    /\ trunc' = {[offset |-> TruncOffset(digest),
                  binary |-> Truncate(digest),
                  arith  |-> TruncateNoBits(digest)]}
    /\ UNCHANGED <<digest, counterIn, packed, textS, bytesS, codecVars, totpVars, asyncVars, appVars>>

NextTrunc == TruncateStep

SpecTrunc == InitTrunc /\ [][NextTrunc]_vars

----------------------------------------------------------------------------
(* Packing of the counter *)

PackBytes == {0, 129, 255}

\* the high part of a counter below 2^53, and the low 24 bits
HiParts ==
    { ((a * 256 + b) * 256 + c) * 256 + d :
        a \in {0, 31}, b \in PackBytes, c \in PackBytes, d \in PackBytes }
LoParts ==
    { (a * 256 + b) * 256 + c : a \in PackBytes, b \in PackBytes, c \in PackBytes }

InitPack ==
    /\ counterIn \in { <<hi, lo>> : hi \in HiParts, lo \in LoParts }
    /\ packed = {}
    /\ digest = << >>
    /\ trunc = {}
    /\ textS = << >>
    /\ bytesS = << >>
    /\ AsyncIdle
    /\ AppIdle
    /\ buf = << >>
    /\ text = << >>
    /\ bytes = << >>
    /\ bytesB = << >>
    /\ cpc = "idle"
    /\ base = << >>
    /\ edits = 0
    /\ secret = << >>
    /\ oracle = << >>
    /\ clock = 0
    /\ generated = {}
    /\ vcall = {}

\* step 3 of totp and of totpNoBitManipulation on the counter
PackStep ==
    /\ counterIn # << >>
    /\ packed = {}
    /\ packed' = {[bits  |-> PackCounter([i \in 1..8 |-> 0], counterIn, 7),
                   arith |-> PackCounterNoBits([i \in 1..8 |-> 0], counterIn, 7)]}
    /\ UNCHANGED <<counterIn, digest, trunc, textS, bytesS, codecVars, totpVars, asyncVars, appVars>>

NextPack == PackStep

SpecPack == InitPack /\ [][NextPack]_vars

\* all scripts
Init == InitCodec \/ InitText \/ InitRef \/ InitAsync \/ InitApp \/ InitTrunc \/ InitPack \/ InitTotp \/ InitVerify

Next == NextCodec \/ NextText \/ NextRef \/ NextAsync \/ NextApp \/ NextTrunc \/ NextPack \/ NextTotp \/ NextVerify

Spec == Init /\ [][Next]_vars

----------------------------------------------------------------------------
(* Notions the properties are stated with *)

\* the number a string of decimal digits spells
RECURSIVE DecimalValue(_)
DecimalValue(s) ==
    IF Len(s) = 0 THEN 0
    ELSE DecimalValue(SubSeq(s, 1, Len(s) - 1)) * 10
         + ((CHOOSE d \in 1..10 : DigitChars[d] = s[Len(s)]) - 1)

IsDigits(s) == \A i \in 1..Len(s) : \E d \in 1..10 : DigitChars[d] = s[i]

\* RFC 4226 truncation by arithmetic: the four bytes at the offset, big-endian,
\* top bit cleared
Binary31(h) ==
    LET o == h[20] % 16
    IN  (((h[o + 1] % 128) * 256 + h[o + 2]) * 256 + h[o + 3]) * 256 + h[o + 4]

\* the steps of a call's window whose code is the padded token
Matches(c) ==
    { w \in (-c.window)..c.window :
        totp(secret, c.now + w * STEP) = PadStart(c.token, 6, "0") }

MinOf(S) == CHOOSE x \in S : \A y \in S : x <= y

\* the codes of the steps -k..k around the call's now
WindowCodes(c, k) == { totp(secret, c.now + w * STEP) : w \in (-k)..k }

----------------------------------------------------------------------------
(* Base32 codec *)

\* C1: decoding the encoding of any byte sequence, the empty one included,
\* gives back exactly that sequence, with either decoder.
C1_RoundTrip ==
    /\ cpc = "decoded" => bytes = buf
    /\ cpc = "decodedB" => bytesB = buf

\* a five-byte buffer, which overflows the 32-bit accumulator, came back
C1_Witness ==
    /\ cpc = "decoded"
    /\ Len(buf) = 5
    /\ buf[1] = 255
    /\ bytes = buf

\* C2: the encoding of n bytes has ceil(8n/5) characters, all from the
\* alphabet A-Z2-7, and none of them is the padding character.
C2_EncodeLength ==
    cpc # "start" =>
        /\ Len(text) = (8 * Len(buf) + 4) \div 5
        /\ \A i \in 1..Len(text) : text[i] \in Alphabet /\ text[i] # "="

\* three bytes, 24 bits: four full groups and a partial fifth
C2_Witness ==
    /\ cpc = "encoded"
    /\ Len(buf) = 3
    /\ Len(text) = 5

\* C11: decoding never fails and its result depends only on the alphabet
\* characters left after uppercasing: writing letters in lower case,
\* appending '=' and putting in characters outside the alphabet anywhere
\* leave the decoded bytes as they were, with either decoder.
C11_Permissive ==
    /\ cpc = "decoded" => bytes = base32Decode(base)
    /\ cpc = "decodedB" => bytesB = base32DecodeBrowser(base)

\* a text with a lower-case letter and an '=' before its end was decoded
\* to the three bytes of the text as first written
C11_Witness ==
    /\ cpc = "decoded"
    /\ edits = 2
    /\ Len(bytes) = 3
    /\ \E i \in 1..(Len(text) - 1) : text[i] = "="
    /\ \E i \in 1..Len(text) : text[i] \notin Alphabet /\ UpperChar(text[i]) \in Alphabet

----------------------------------------------------------------------------
(* Verifier *)

\* C3: verifyTotp reports the smallest step of the window whose code is the
\* zero-padded token, reports failure exactly when no step matches, and
\* generates the codes in ascending order of w up to the first match.
C3_FirstMatchWins ==
    \A c \in vcall :
        LET M == Matches(c)
            n == IF M = {} THEN 2 * c.window + 1 ELSE MinOf(M) + c.window + 1
        IN  /\ c.res.ok <=> M # {}
            /\ c.res.ok => c.res.drift = MinOf(M)
            /\ c.res.gen = [i \in 1..n |-> c.now + (i - 1 - c.window) * STEP]

\* the token is the code of two steps of the window and the earlier one wins
C3_Witness ==
    \E c \in vcall :
        /\ c.window = 2
        /\ c.res.ok
        /\ c.res.drift = -1
        /\ totp(secret, c.now + STEP) = PadStart(c.token, 6, "0")

\* C4 as stated: with window 1 the codes of now-30 and now+30 are accepted
\* and the code of now-90 is rejected.
C4_Original ==
    \A c \in vcall :
        c.window = 1 =>
            /\ c.token = totp(secret, c.now - STEP) => c.res.ok
            /\ c.token = totp(secret, c.now + STEP) => c.res.ok
            /\ c.token = totp(secret, c.now - 3 * STEP) => ~c.res.ok

\* C4 amended: with window 1 the codes of now-30 and now+30 are accepted, and
\* the code of now-90 is rejected unless it is also the code of one of the
\* steps now-30, now, now+30.
C4_WindowOne ==
    \A c \in vcall :
        c.window = 1 =>
            /\ c.token = totp(secret, c.now - STEP) => c.res.ok
            /\ c.token = totp(secret, c.now + STEP) => c.res.ok
            /\ (c.token = totp(secret, c.now - 3 * STEP)
                  /\ c.token \notin WindowCodes(c, 1)) => ~c.res.ok

\* the code of now+30, which no other step of the window has, was accepted
C4_Witness ==
    \E c \in vcall :
        /\ c.window = 1
        /\ c.token = totp(secret, c.now + STEP)
        /\ c.token # totp(secret, c.now)
        /\ c.token # totp(secret, c.now - STEP)
        /\ c.res.ok
        /\ c.res.drift = 1

\* C5 as stated: the code of the current step reports drift 0, the code of
\* the previous step (when the window reaches it) reports drift -1.
C5_Original ==
    \A c \in vcall :
        /\ c.token = totp(secret, c.now) => c.res.ok /\ c.res.drift = 0
        /\ (c.window >= 1 /\ c.token = totp(secret, c.now - STEP))
              => c.res.ok /\ c.res.drift = -1

\* C5 amended: the code of the current step reports drift 0, and the code of
\* the previous step reports drift -1, provided no earlier step of the
\* window has the same code (the earliest matching step is the one reported).
C5_Drift ==
    \A c \in vcall :
        /\ (c.token = totp(secret, c.now)
              /\ \A w \in (-c.window)..(-1) : totp(secret, c.now + w * STEP) # c.token)
              => c.res.ok /\ c.res.drift = 0
        /\ (c.window >= 1 /\ c.token = totp(secret, c.now - STEP)
              /\ \A w \in (-c.window)..(-2) : totp(secret, c.now + w * STEP) # c.token)
              => c.res.ok /\ c.res.drift = -1

\* the code of the previous step, which is not the current one, gave drift -1
C5_Witness ==
    \E c \in vcall :
        /\ c.window = 1
        /\ c.token = totp(secret, c.now - STEP)
        /\ c.token # totp(secret, c.now)
        /\ c.res.ok
        /\ c.res.drift = -1

\* C6: a token typed without its leading zeros is verified exactly as the
\* same token with the zeros written out.
C6_PaddingTolerance ==
    \A c \in vcall :
        c.res = verifyTotp(secret, PadStart(c.token, 6, "0"), c.window)

\* "42" was accepted where the code is 000042
C6_Witness ==
    \E c \in vcall :
        /\ c.token = << "4", "2" >>
        /\ c.res.ok
        /\ totp(secret, c.now + c.res.drift * STEP)
              = << "0", "0", "0", "0", "4", "2" >>

\* C7 as stated: with window 0 exactly the current step is generated, and
\* the code of the previous or of the next step is not accepted.
C7_Original ==
    \A c \in vcall :
        c.window = 0 =>
            /\ c.res.gen = << c.now >>
            /\ (c.token = totp(secret, c.now - STEP)
                  \/ c.token = totp(secret, c.now + STEP)) => ~c.res.ok

\* C7 amended: with window 0 exactly the current step is generated, and the
\* code of the previous or of the next step is not accepted unless it is
\* also the code of the current step.
C7_WindowZero ==
    \A c \in vcall :
        c.window = 0 =>
            /\ c.res.gen = << c.now >>
            /\ c.res.ok <=> PadStart(c.token, 6, "0") = totp(secret, c.now)
            /\ ((c.token = totp(secret, c.now - STEP)
                   \/ c.token = totp(secret, c.now + STEP))
                  /\ c.token # totp(secret, c.now)) => ~c.res.ok

\* the code of the previous step, which differs from the current one, was
\* rejected with window 0
C7_Witness ==
    \E c \in vcall :
        /\ c.window = 0
        /\ c.token = totp(secret, c.now - STEP)
        /\ c.token # totp(secret, c.now)
        /\ ~c.res.ok

\* C12: a call generates at most 2*window + 1 codes, and exactly that many
\* when no step of the window matches.
C12_BoundedLoop ==
    \A c \in vcall :
        /\ Len(c.res.gen) >= 1
        /\ Len(c.res.gen) <= 2 * c.window + 1
        /\ ~c.res.ok => Len(c.res.gen) = 2 * c.window + 1

\* a call with window 2 found no match after five codes
C12_Witness ==
    \E c \in vcall :
        /\ c.window = 2
        /\ ~c.res.ok
        /\ Len(c.res.gen) = 5

----------------------------------------------------------------------------
(* Code generation *)

C14_Truncation ==
    \A r \in trunc :
        /\ r.offset \in 0..15
        /\ r.offset + 3 <= 18
        /\ r.offset + 3 < Len(digest)
        /\ r.binary >= 0
        /\ r.binary <= 2147483647
        /\ r.binary = Binary31(digest)
        /\ r.binary = r.arith

\* offset 15 and four bytes 0xff: the top bit is dropped, the rest kept
C14_Witness ==
    \E r \in trunc :
        /\ r.offset = 15
        /\ At(digest, 15) = 255
        /\ r.binary = 2147483647

\* the characters base32Decode processes
Clean(str) == StripNonAlphabet(StripTrailingEq(ToUpperCase(str)))

\* the valid-bit count of base32Decode after the first k characters
BitsAfter(clean, k) == DecodeLoop(SubSeq(clean, 1, k), 1, ToWord(0), 0, << >>).bits

\* C18: in base32Decode the valid-bit count is at most 7 after every
\* character, so `if (bits >= 8)` emits the bytes a `while (bits >= 8)` in
\* its place would (WhileLoop); m alphabet characters give floor(5m/8) bytes
\* and the fewer than 8 bits left produce no byte.
C18_BitsBelow8 ==
    LET clean == Clean(text)
        m == Len(clean)
        RECURSIVE Drain(_, _, _)
        Drain(value, bits, out) ==
            IF bits >= 8
            THEN Drain(value, bits - 8,
                       Append(out, WordToInt(BitAnd(Ushr(value, bits - 8), ToWord(255)))))
            ELSE [bits |-> bits, out |-> out]
        RECURSIVE WhileLoop(_, _, _, _)
        WhileLoop(i, value, bits, out) ==
            IF i > m THEN out
            ELSE LET v == BitOr(Shl(value, 5), ToWord(IndexOf(clean[i])))
                     d == Drain(v, bits + 5, out)
                 IN  WhileLoop(i + 1, v, d.bits, d.out)
    IN  /\ cpc = "decoded" =>
            /\ \A k \in 0..m : BitsAfter(clean, k) <= 7
            /\ bytes = WhileLoop(1, ToWord(0), 0, << >>)
            /\ Len(bytes) = (5 * m) \div 8
            /\ BitsAfter(clean, m) = 5 * m - 8 * Len(bytes)
        /\ cpc = "decodedB" => Len(bytesB) = (5 * m) \div 8

\* seven characters: 35 bits, four bytes, and three bits left over
C18_Witness ==
    /\ cpc = "decoded"
    /\ Len(Clean(text)) = 7
    /\ Len(bytes) = 4
    /\ BitsAfter(Clean(text), 7) = 3
    /\ BitsAfter(Clean(text), 3) = 7

\* C16: for every buffer the bitwise base32Encode, whose accumulator is cut
\* to 32 bits by <<, returns the string that base32EncodeString builds from
\* the full bit stream.
C16_EncodersAgree ==
    cpc \in {"comparedE", "comparedD"} => text = textS

\* five bytes: 40 bits have passed through the 32-bit accumulator
C16_Witness ==
    /\ cpc = "comparedE"
    /\ Len(buf) = 5
    /\ buf[1] = 255
    /\ Len(textS) = 8

\* C17: for every string produced by base32Encode, the bitwise base32Decode
\* returns the bytes that base32DecoderString reads from the joined 5-bit
\* groups in full groups of 8 bits.
C17_DecodersAgree ==
    cpc = "comparedD" => bytes = bytesS

\* a text whose bit stream ends in a partial group of 8 bits
C17_Witness ==
    /\ cpc = "comparedD"
    /\ Len(text) = 7
    /\ Len(bytesS) = 4
    /\ bytesS[1] = 165

\* floor(counter / 256^k) mod 256 for k in 0..7, for a counter below 2^55
ByteOfCounter(c, k) ==
    IF k < 3 THEN (c[2] \div (256 ^ k)) % 256
    ELSE IF k < 7 THEN (c[1] \div (256 ^ (k - 3))) % 256
    ELSE 0

\* C15: for every non-negative integer counter, 2^32 and above included, the
\* loop fills the buffer with the big-endian representation: byte i is
\* floor(counter / 256^(7-i)) mod 256.
C15_BigEndian ==
    \A r \in packed :
        /\ Len(r.bits) = 8
        /\ \A i \in 0..7 : At(r.bits, i) = ByteOfCounter(counterIn, 7 - i)
        /\ r.arith = r.bits

\* a counter of 2^32 or more whose bytes above the low 32 bits are not zero
C15_Witness ==
    \E r \in packed :
        /\ counterIn[1] >= 256
        /\ At(r.bits, 1) = 31
        /\ At(r.bits, 3) = 129
        /\ At(r.bits, 7) = 255

\* C13: under any interleaving of an asynchronous verifyTotp call, an
\* asynchronous totp call and the clock, each call returns what it returns
\* when run alone with its arguments and the clock value read at its start.
C13_Isolation ==
    /\ vtask.pc = "done" =>
          LET alone == VerifyLoop(secret, vtask.token, vtask.window,
                                  vtask.start \div 1000, -vtask.window, << >>)
          IN  /\ vtask.ok = alone.ok
              /\ vtask.ok => vtask.drift = alone.drift
    /\ ttask.pc = "done" => ttask.code = totp(secret, ttask.start \div 1000)

\* a verification that was suspended while the clock passed into the next
\* step and while a totp call ran, and matched at its own current step
C13_Witness ==
    /\ vtask.pc = "done"
    /\ vtask.ok
    /\ vtask.drift = 0
    /\ vtask.window >= 1
    /\ (clock \div 1000) \div STEP # (vtask.start \div 1000) \div STEP
    /\ ttask.pc = "done"
    /\ ttask.start # vtask.start
    /\ ttask.code # vtask.token

\* C19: a verification result is cleared only 3 seconds or more after it
\* was set, unless the secret is set in the same step; in particular the
\* latest of several results is not cleared before its own 3 seconds have
\* passed.
C19_ResultStays ==
    [][ (verifyResult # {} /\ verifyResult' = {} /\ nChanges' = nChanges)
          => \A r \in verifyResult : clock >= r.setAt + 3000 ]_vars

\* C20: every code and every verification result that is put on display was
\* computed for the secret that is current at that moment, and at most one
\* update interval is active.
C20_NoStaleResults ==
    [][ /\ currentTotp' # currentTotp => currentTotp'.secret = secret'
        /\ (verifyResult' # verifyResult /\ verifyResult' # {})
              => \A r \in verifyResult' : r.secret = secret'
        /\ Cardinality(intervals') <= 1 ]_vars

\* C9: the code depends on the time only through floor(t / 30): calls for
\* the same secret with times of the same step return the same code.
C9_Deterministic ==
    \A g1, g2 \in generated :
        g1.t \div STEP = g2.t \div STEP => g1.code = g2.code

\* two different times of one step gave one code, a third time another code
C9_Witness ==
    \E g1, g2, g3 \in generated :
        /\ g1.t # g2.t
        /\ g1.t \div STEP = g2.t \div STEP
        /\ g1.code = g2.code
        /\ g3.code # g1.code

\* C10: the code has exactly 6 characters, all decimal digits, and spells
\* the truncated 31-bit value modulo 10^6.
C10_CodeFormat ==
    \A g \in generated :
        /\ Len(g.code) = 6
        /\ IsDigits(g.code)
        /\ DecimalValue(g.code)
             = Binary31(TotpDigest(secret, g.t)) % 1000000

\* a value below 100000 was padded with zeros
C10_Witness ==
    \E g \in generated :
        /\ g.code = << "0", "0", "0", "0", "4", "2" >>
        /\ Binary31(TotpDigest(secret, g.t)) = 42

====
